---- MODULE Spec2Model ----
(***************************************************************************)
(* A model of the agscheduler Scheduler (standalone mode): the job store,  *)
(* the timing algebra (CalcNextRunTime), the client operations and the     *)
(* run loop with its timer.                                                *)
(*                                                                         *)
(* Time is an integer count of clock units, SecUnits units to the second,  *)
(* so that time.Now() has sub-second values while every stored run time    *)
(* is cut to a whole second, as time.Unix(t.Unix(), 0) does.               *)
(***************************************************************************)
EXTENDS Integers, Sequences, FiniteSets, TLC

\* ------------------------------------------------------------------ bounds
MaxTime == 5
MaxJobs == 2
MaxCalls == 3
MaxStarts == 3
MaxFires == 2
MaxSent == 1

\* ------------------------------------------------------- program constants
SecUnits == 2
NEXT_RUN_TIME_MAX == 100
ZeroTime == -1
NoStartAt == -1
NoTimer == -1
QuitCap == 3

TYPE_DATETIME == "datetime"
TYPE_INTERVAL == "interval"
TYPE_CRON == "cron"
STATUS_RUNNING == "running"
STATUS_PAUSED == "paused"

VARIABLES
    now,        \* the wall clock, in clock units
    store,      \* the job store: Id -> Job
    usedIds,    \* the Ids SetId has handed out
    calls,      \* the client calls that have changed the store so far
    timerSet,   \* s.timer != nil
    timerWhen,  \* the armed timer's deadline, NoTimer when it is not armed
    timerC,     \* a tick is waiting in timer.C
    isRunning,  \* s.isRunning
    pc,         \* where the run loop goroutine is
    tickNow,    \* run's local `now`
    js,         \* run's local `js`: the sorted snapshot, the part not yet visited
    cur,        \* run's local `j` between its dispatch and its flush
    tickFired,  \* the jobs dispatched in the tick in progress, in order
    ret,        \* what the client call that has just returned gave its caller
    gens,       \* the (timer, quitChan) pairs Start has made, the last one is s.timer, s.quitChan
    runs,       \* the run goroutines Start has launched
    fires,      \* the goroutines _runJob has spawned and that have not ended
    clusterMode,\* s.clusterNode != nil on the nodes
    nodeMap,    \* the peer table: endpoint -> absent, healthy or unhealthy
    nodeTimer,  \* every node's s.timer
    nodePc,     \* where every node's run loop is
    sent,       \* the CRPCService.RunJob calls on their way to a node
    last,       \* the last thing a node did with a job or with a request
    quitChan,   \* the signals waiting in s.quitChan
    nextWakeup  \* run's local `nextWakeupInterval`, NoTimer when run holds none

vars == <<now, store, usedIds, calls, timerSet, timerWhen, timerC, isRunning,
          pc, tickNow, js, cur, tickFired, ret, gens, runs, fires,
          clusterMode, nodeMap, nodeTimer, nodePc, sent, last,
          quitChan, nextWakeup>>

\* what Stop leaves for the run loop, and what the loop holds between
\* getNextWakeupInterval and timer.Reset
raceVars == <<quitChan, nextWakeup>>

\* the nodes of a cluster and what goes between them
clusterVars == <<clusterMode, nodeMap, nodeTimer, nodePc, sent, last>>

\* the state of Start and Stop cycles: every timer, quit channel and run goroutine
lifeVars == <<gens, runs>>

Ids == 1..MaxJobs

\* the nodes of the cluster by their Endpoint, and the Queue of each
Endpoints == {"main", "worker"}

Queue == [n \in Endpoints |-> IF n = "main" THEN "default" ELSE "node"]

\* nothing has happened on a node yet
NoEvent == [what |-> "", node |-> "", Queues |-> {}, by |-> "", err |-> "", to |-> ""]

\* ------------------------------------------------------------ time algebra
\* time.Unix(t.Unix(), 0): cut to the whole second
Trunc(t) == (t \div SecUnits) * SecUnits

\* time.ParseDuration on the interval strings in use
ParseDuration(s) ==
    CASE s = "500ms" -> [ok |-> TRUE, d |-> SecUnits \div 2]
      [] s = "1s"    -> [ok |-> TRUE, d |-> SecUnits]
      [] s = "1h"    -> [ok |-> TRUE, d |-> 3600 * SecUnits]
      [] OTHER       -> [ok |-> FALSE, d |-> 0]

\* cronexpr.Parse on the expressions in use: the period in seconds
cronexprParse(e) ==
    CASE e = "*/2 * * * * *" -> [ok |-> TRUE, period |-> 2]
      [] OTHER               -> [ok |-> FALSE, period |-> 0]

\* expr.Next(t): the first matching instant strictly after t
cronexprNext(period, t) ==
    LET p == period * SecUnits IN ((t \div p) + 1) * p

\* time.ParseInLocation(time.DateTime, StartAt, UTC); StartAt is in whole seconds
ParseStartAt(s) ==
    IF s = NoStartAt THEN [ok |-> FALSE, t |-> 0]
                     ELSE [ok |-> TRUE, t |-> s * SecUnits]

\* time.LoadLocation
LoadLocation(tz) == tz \in {"", "UTC"}

GetNextRunTimeMax == NEXT_RUN_TIME_MAX

\* CalcNextRunTime without its paused case: a paused job is timed as a running one
CalcNextRunTimeIgnoringPause(j, t) ==
    IF ~LoadLocation(j.Timezone) THEN [ok |-> FALSE, t |-> ZeroTime]
    ELSE CASE j.Type = TYPE_DATETIME ->
                LET p == ParseStartAt(j.StartAt)
                IN  IF p.ok THEN [ok |-> TRUE, t |-> Trunc(p.t)]
                            ELSE [ok |-> FALSE, t |-> ZeroTime]
           [] j.Type = TYPE_INTERVAL ->
                LET i == ParseDuration(j.Interval)
                IN  IF i.ok THEN [ok |-> TRUE, t |-> Trunc(t + i.d)]
                            ELSE [ok |-> FALSE, t |-> ZeroTime]
           [] j.Type = TYPE_CRON ->
                LET e == cronexprParse(j.CronExpr)
                IN  IF e.ok THEN [ok |-> TRUE, t |-> Trunc(cronexprNext(e.period, t))]
                            ELSE [ok |-> FALSE, t |-> ZeroTime]
           [] OTHER -> [ok |-> FALSE, t |-> ZeroTime]

\* CalcNextRunTime(j) evaluated at clock t: [ok, t]
CalcNextRunTime(j, t) ==
    IF ~LoadLocation(j.Timezone) THEN [ok |-> FALSE, t |-> ZeroTime]
    ELSE IF j.Status = STATUS_PAUSED
         THEN [ok |-> TRUE, t |-> Trunc(GetNextRunTimeMax)]
    ELSE CASE j.Type = TYPE_DATETIME ->
                LET p == ParseStartAt(j.StartAt)
                IN  IF p.ok THEN [ok |-> TRUE, t |-> Trunc(p.t)]
                            ELSE [ok |-> FALSE, t |-> ZeroTime]
           [] j.Type = TYPE_INTERVAL ->
                LET i == ParseDuration(j.Interval)
                IN  IF i.ok THEN [ok |-> TRUE, t |-> Trunc(t + i.d)]
                            ELSE [ok |-> FALSE, t |-> ZeroTime]
           [] j.Type = TYPE_CRON ->
                LET e == cronexprParse(j.CronExpr)
                IN  IF e.ok THEN [ok |-> TRUE, t |-> Trunc(cronexprNext(e.period, t))]
                            ELSE [ok |-> FALSE, t |-> ZeroTime]
           [] OTHER -> [ok |-> FALSE, t |-> ZeroTime]

\* ------------------------------------------------------------------- jobs
\* the function registry: RegisterFuncs(dryRun) has run before Start
FuncMap == {"dryRun"}

\* getFuncName(j.Func): the callers pass Func: dryRun
getFuncName == "dryRun"

\* Job{}
NoJob ==
    [Id |-> 0, Type |-> "", StartAt |-> NoStartAt, Interval |-> "", CronExpr |-> "",
     Timezone |-> "", FuncName |-> "", Timeout |-> "", Status |-> "",
     LastRunTime |-> ZeroTime, NextRunTime |-> ZeroTime]

\* what a caller can ask for: the timing fields of a Job
TimingInputs ==
    [Type : {TYPE_DATETIME}, StartAt : {1, NEXT_RUN_TIME_MAX \div SecUnits, NoStartAt},
     Interval : {""}, CronExpr : {""}]
    \cup [Type : {TYPE_INTERVAL}, StartAt : {NoStartAt},
          Interval : {"500ms", "1s", ""}, CronExpr : {""}]
    \cup [Type : {TYPE_CRON}, StartAt : {NoStartAt},
          Interval : {""}, CronExpr : {"*/2 * * * * *", "every day"}]
    \cup [Type : {"weekly"}, StartAt : {NoStartAt}, Interval : {""}, CronExpr : {""}]

TimezoneInputs == {"", "Mars/Phobos"}
FuncNameInputs == {"", "missing"}
StatusInputs == {STATUS_RUNNING, STATUS_PAUSED, "stopped"}

\* a Job value as a caller builds it
NewJob(tm, tz, fn, st) ==
    [NoJob EXCEPT !.Type = tm.Type, !.StartAt = tm.StartAt, !.Interval = tm.Interval,
                  !.CronExpr = tm.CronExpr, !.Timezone = tz, !.FuncName = fn,
                  !.Status = st]

\* Job.check: the function is registered
check(j) == j.FuncName \in FuncMap

\* Job.init at clock t with the Id SetId draws: [err, j]
init(j, id, t) ==
    LET j1 == [j EXCEPT !.Id = id,
                        !.Status = STATUS_RUNNING,
                        !.Timezone = IF j.Timezone = "" THEN "UTC" ELSE j.Timezone,
                        !.FuncName = IF j.FuncName = "" THEN getFuncName ELSE j.FuncName,
                        !.Timeout = IF j.Timeout = "" THEN "1h" ELSE j.Timeout]
        c == CalcNextRunTime(j1, t)
    IN  IF ~check(j1) THEN [err |-> "FuncUnregistered", j |-> NoJob]
        ELSE IF ~c.ok THEN [err |-> "InvalidSpec", j |-> NoJob]
        ELSE [err |-> "", j |-> [j1 EXCEPT !.NextRunTime = c.t]]

\* ------------------------------------------------------------------ store
\* JobSlice.Less: by NextRunTime, ties by Id
JobSliceLess(a, b) ==
    \/ a.NextRunTime < b.NextRunTime
    \/ a.NextRunTime = b.NextRunTime /\ a.Id < b.Id

RECURSIVE SortJobs(_)
\* sort.Sort(JobSlice(js)) of a set of jobs
SortJobs(S) ==
    IF S = {} THEN <<>>
    ELSE LET m == CHOOSE a \in S : \A b \in S \ {a} : JobSliceLess(a, b)
         IN  <<m>> \o SortJobs(S \ {m})

\* store.GetAllJobs
GetAllJobs(st) == {st[i] : i \in DOMAIN st}

\* store.GetNextRunTime: the least NextRunTime, NEXT_RUN_TIME_MAX when empty
GetNextRunTime(st) ==
    IF DOMAIN st = {} THEN GetNextRunTimeMax
    ELSE CHOOSE t \in {st[i].NextRunTime : i \in DOMAIN st} :
             \A i \in DOMAIN st : t <= st[i].NextRunTime

\* store.DeleteJob
StoreDeleteJob(st, id) == [i \in DOMAIN st \ {id} |-> st[i]]

\* store.AddJob
StoreAddJob(st, j) == [i \in DOMAIN st \cup {j.Id} |-> IF i = j.Id THEN j ELSE st[i]]

\* store.UpdateJob
StoreUpdateJob(st, j) == [st EXCEPT ![j.Id] = j]

\* -------------------------------------------------------------- scheduler
\* getNextWakeupInterval that returns a second for every interval under a second
getNextWakeupIntervalAtLeastSecond(st, t) ==
    LET nextWakeupInterval == GetNextRunTime(st) - t
    IN  IF nextWakeupInterval < SecUnits THEN SecUnits ELSE nextWakeupInterval

\* Scheduler.getNextWakeupInterval at clock t over store st
getNextWakeupInterval(st, t) ==
    LET nextWakeupInterval == GetNextRunTime(st) - t
    IN  IF nextWakeupInterval < 0 THEN SecUnits ELSE nextWakeupInterval

\* timer.Reset(d) on an existing timer
TimerReset(d) == timerWhen' = now + d

\* Scheduler.wakeup
wakeup == IF timerSet THEN TimerReset(0) ELSE UNCHANGED timerWhen

\* UpdateJob's Status coercion
CoerceStatus(j, oJ) ==
    IF j.Status = "" \/ (j.Status # STATUS_RUNNING /\ j.Status # STATUS_PAUSED)
    THEN [j EXCEPT !.Status = oJ.Status] ELSE j

\* UpdateJob's result without j.NextRunTime = nextRunTime: the caller's value is kept
UpdateJobResultKeepingNextRunTime(j) ==
    IF j.Id \notin DOMAIN store THEN [err |-> "JobNotFound", j |-> NoJob]
    ELSE LET j1 == CoerceStatus(j, store[j.Id])
             c == CalcNextRunTime(j1, now)
         IN  IF ~check(j1) THEN [err |-> "FuncUnregistered", j |-> NoJob]
             ELSE IF ~c.ok THEN [err |-> "InvalidSpec", j |-> NoJob]
             ELSE [err |-> "", j |-> j1]

\* UpdateJob's result without j.check()
UpdateJobResultUnchecked(j) ==
    IF j.Id \notin DOMAIN store THEN [err |-> "JobNotFound", j |-> NoJob]
    ELSE LET j1 == CoerceStatus(j, store[j.Id])
             c == CalcNextRunTime(j1, now)
         IN  IF ~c.ok THEN [err |-> "InvalidSpec", j |-> NoJob]
             ELSE [err |-> "", j |-> [j1 EXCEPT !.NextRunTime = c.t]]

\* Scheduler.UpdateJob's result for argument j: [err, j]
UpdateJobResult(j) ==
    IF j.Id \notin DOMAIN store THEN [err |-> "JobNotFound", j |-> NoJob]
    ELSE LET j1 == CoerceStatus(j, store[j.Id])
             c == CalcNextRunTime(j1, now)
         IN  IF ~check(j1) THEN [err |-> "FuncUnregistered", j |-> NoJob]
             ELSE IF ~c.ok THEN [err |-> "InvalidSpec", j |-> NoJob]
             ELSE [err |-> "", j |-> [j1 EXCEPT !.NextRunTime = c.t]]

\* UpdateJob without the GetJob before it: a job that is not stored is stored
UpdateJobUpserting(j) ==
    LET c == CalcNextRunTime(j, now)
    IN  IF ~check(j) \/ ~c.ok THEN UNCHANGED <<store, timerWhen>>
        ELSE LET lastNextWakeupInterval == getNextWakeupInterval(store, now)
                 st == StoreAddJob(store, [j EXCEPT !.NextRunTime = c.t])
                 nextWakeupInterval == getNextWakeupInterval(st, now)
             IN  /\ store' = st
                 /\ IF nextWakeupInterval < lastNextWakeupInterval
                    THEN wakeup ELSE UNCHANGED timerWhen

\* Scheduler.UpdateJob: what it does to the store and the timer
UpdateJob(j) ==
    LET r == UpdateJobResult(j)
    IN  IF r.err # "" THEN UNCHANGED <<store, timerWhen>>
        ELSE LET lastNextWakeupInterval == getNextWakeupInterval(store, now)
                 st == StoreUpdateJob(store, r.j)
                 nextWakeupInterval == getNextWakeupInterval(st, now)
             IN  /\ store' = st
                 /\ IF nextWakeupInterval < lastNextWakeupInterval
                    THEN wakeup ELSE UNCHANGED timerWhen

\* Scheduler.DeleteJob: what it does to the store
DeleteJob(id) ==
    IF id \in DOMAIN store THEN store' = StoreDeleteJob(store, id)
                           ELSE UNCHANGED store

loopVars == <<pc, tickNow, js, cur, tickFired>>

\* no client call has just returned
NoRet == [op |-> "", Id |-> 0, err |-> "", j |-> NoJob, was |-> "", fires |-> 0, asGot |-> FALSE]

\* the stored Status of job id, "" when there is no such job
StatusOf(id) == IF id \in DOMAIN store THEN store[id].Status ELSE ""

\* a call counts when it changes the store
Counted == calls' = IF store' # store THEN calls + 1 ELSE calls

\* ------------------------------------------------------ client operations
\* AddJob that stores the job before it validates it
AddJobStoringFirst(j) ==
    /\ ret = NoRet
    /\ calls < MaxCalls
    /\ \E id \in Ids \ usedIds :
          /\ \A o \in Ids \ usedIds : id <= o
          /\ LET r == init(j, id, now)
             IN  /\ store' = StoreAddJob(store, IF r.err = "" THEN r.j
                                                ELSE [j EXCEPT !.Id = id])
                 /\ usedIds' = usedIds \cup {id}
                 /\ ret' = [op |-> "AddJob", Id |-> r.j.Id, err |-> r.err, j |-> r.j,
                            was |-> "", fires |-> 0, asGot |-> FALSE]
    /\ Counted
    /\ UNCHANGED <<now, timerSet, timerWhen, timerC, isRunning>>
    /\ UNCHANGED loopVars
    /\ UNCHANGED <<lifeVars, fires, raceVars, clusterVars>>

\* AddJob that returns the job without store.AddJob
AddJobNotPersisting(j) ==
    /\ ret = NoRet
    /\ calls < MaxCalls
    /\ \E id \in Ids \ usedIds :
          /\ \A o \in Ids \ usedIds : id <= o
          /\ LET r == init(j, id, now)
             IN  /\ IF r.err = ""
                    THEN /\ UNCHANGED store
                         /\ usedIds' = usedIds \cup {id}
                    ELSE UNCHANGED <<store, usedIds>>
                 /\ ret' = [op |-> "AddJob", Id |-> r.j.Id, err |-> r.err, j |-> r.j,
                            was |-> "", fires |-> 0, asGot |-> FALSE]
    /\ Counted
    /\ UNCHANGED <<now, timerSet, timerWhen, timerC, isRunning>>
    /\ UNCHANGED loopVars
    /\ UNCHANGED <<lifeVars, fires, raceVars, clusterVars>>

\* Scheduler.AddJob(j)
AddJob(j) ==
    /\ ret = NoRet
    /\ calls < MaxCalls
    /\ \E id \in Ids \ usedIds :
          /\ \A o \in Ids \ usedIds : id <= o
          /\ LET r == init(j, id, now)
             IN  /\ IF r.err = ""
                    THEN /\ store' = StoreAddJob(store, r.j)
                         /\ usedIds' = usedIds \cup {id}
                    ELSE UNCHANGED <<store, usedIds>>
                 /\ ret' = [op |-> "AddJob", Id |-> r.j.Id, err |-> r.err, j |-> r.j,
                            was |-> "", fires |-> 0, asGot |-> FALSE]
    /\ Counted
    /\ UNCHANGED <<now, timerSet, timerWhen, timerC, isRunning>>
    /\ UNCHANGED loopVars
    /\ UNCHANGED <<lifeVars, fires, raceVars, clusterVars>>

\* the edits a caller makes to GetJob(id): new timing fields, or a new Status
KeepTiming == [Type |-> "", StartAt |-> NoStartAt, Interval |-> "", CronExpr |-> ""]

KeepFuncName == "<unchanged>"

KeepStatus == "<unchanged>"

\* no edit at all: the caller passes GetJob(id) as it got it
NoEdit == [timing |-> KeepTiming, Status |-> KeepStatus, FuncName |-> KeepFuncName]

EditInputs ==
    [timing : TimingInputs, Status : {""}, FuncName : {KeepFuncName}]
    \cup [timing : {KeepTiming}, Status : StatusInputs, FuncName : {KeepFuncName}]
    \cup [timing : {KeepTiming}, Status : {""}, FuncName : FuncNameInputs]
    \cup {NoEdit}

\* the job with Id id a caller holds: the stored one, or one whose id is unknown
HeldJob(id) ==
    IF id \in DOMAIN store THEN store[id]
    ELSE [NoJob EXCEPT !.Id = id, !.Type = TYPE_INTERVAL, !.Interval = "1s",
                       !.FuncName = "dryRun", !.Timezone = "UTC", !.Timeout = "1h",
                       !.Status = STATUS_RUNNING]

\* the job id as a caller edits it
EditedJob(id, e) ==
    IF e = NoEdit THEN HeldJob(id)
    ELSE IF e.FuncName # KeepFuncName
    THEN [HeldJob(id) EXCEPT !.FuncName = e.FuncName]
    ELSE IF e.timing = KeepTiming
    THEN [HeldJob(id) EXCEPT !.Status = e.Status]
    ELSE [HeldJob(id) EXCEPT !.Type = e.timing.Type, !.StartAt = e.timing.StartAt,
                           !.Interval = e.timing.Interval,
                           !.CronExpr = e.timing.CronExpr, !.Status = e.Status]

\* UpdateJob that stores the job with LastRunTime set back to the zero time
ClientUpdateJobResettingLastRunTime(id, e) ==
    /\ ret = NoRet
    /\ calls < MaxCalls
    /\ LET j == [EditedJob(id, e) EXCEPT !.LastRunTime = ZeroTime]
           r == UpdateJobResult(j)
       IN  /\ UpdateJob(j)
           /\ ret' = [op |-> "UpdateJob", Id |-> id, err |-> r.err, j |-> r.j,
                      was |-> StatusOf(id), fires |-> 0, asGot |-> e = NoEdit]
    /\ Counted
    /\ UNCHANGED <<now, usedIds, timerSet, timerC, isRunning>>
    /\ UNCHANGED loopVars
    /\ UNCHANGED <<lifeVars, fires, raceVars, clusterVars>>

\* a caller's UpdateJob(j): j is GetJob(id) with its timing or its Status edited
ClientUpdateJob(id, e) ==
    /\ ret = NoRet
    /\ calls < MaxCalls
    /\ LET j == EditedJob(id, e)
           r == UpdateJobResult(j)
       IN  /\ UpdateJob(j)
           /\ ret' = [op |-> "UpdateJob", Id |-> id, err |-> r.err, j |-> r.j,
                      was |-> StatusOf(id), fires |-> 0, asGot |-> e = NoEdit]
    /\ Counted
    /\ UNCHANGED <<now, usedIds, timerSet, timerC, isRunning>>
    /\ UNCHANGED loopVars
    /\ UNCHANGED <<lifeVars, fires, raceVars, clusterVars>>

\* PauseJob and ResumeJob: GetJob(id), set Status, UpdateJob
SetStatus(op, id, status) ==
    /\ ret = NoRet
    /\ calls < MaxCalls
    /\ IF id \in DOMAIN store
       THEN LET j == [store[id] EXCEPT !.Status = status]
                r == UpdateJobResult(j)
            IN  /\ UpdateJob(j)
                /\ ret' = [op |-> op, Id |-> id, err |-> r.err, j |-> r.j,
                           was |-> StatusOf(id), fires |-> 0, asGot |-> FALSE]
       ELSE /\ UNCHANGED <<store, timerWhen>>
            /\ ret' = [op |-> op, Id |-> id, err |-> "JobNotFound", j |-> NoJob,
                       was |-> "", fires |-> 0, asGot |-> FALSE]
    /\ Counted
    /\ UNCHANGED <<now, usedIds, timerSet, timerC, isRunning>>
    /\ UNCHANGED loopVars
    /\ UNCHANGED <<lifeVars, fires, raceVars, clusterVars>>

\* Scheduler.PauseJob(id)
PauseJob(id) == SetStatus("PauseJob", id, STATUS_PAUSED)

\* ResumeJob without j.Status = STATUS_RUNNING
ResumeJobKeepingStatus(id) == SetStatus("ResumeJob", id, "")

\* Scheduler.ResumeJob(id)
ResumeJob(id) == SetStatus("ResumeJob", id, STATUS_RUNNING)

\* Scheduler.GetJob(id): store.GetJob
GetJob(id) ==
    /\ ret = NoRet
    /\ ret' = [op |-> "GetJob", Id |-> id,
               err |-> IF id \in DOMAIN store THEN "" ELSE "JobNotFound",
               j |-> IF id \in DOMAIN store THEN store[id] ELSE NoJob,
               was |-> StatusOf(id), fires |-> 0, asGot |-> FALSE]
    /\ UNCHANGED <<now, store, usedIds, calls, timerSet, timerWhen, timerC, isRunning>>
    /\ UNCHANGED loopVars
    /\ UNCHANGED <<lifeVars, fires, raceVars, clusterVars>>

\* DeleteJob without the GetJob before store.DeleteJob
ClientDeleteJobUnchecked(id) ==
    /\ ret = NoRet
    /\ calls < MaxCalls
    /\ DeleteJob(id)
    /\ ret' = [op |-> "DeleteJob", Id |-> id, err |-> "",
               j |-> NoJob, was |-> StatusOf(id), fires |-> 0, asGot |-> FALSE]
    /\ Counted
    /\ UNCHANGED <<now, usedIds, timerSet, timerWhen, timerC, isRunning>>
    /\ UNCHANGED loopVars
    /\ UNCHANGED <<lifeVars, fires, raceVars, clusterVars>>

\* Scheduler.DeleteJob(id) called by a client
ClientDeleteJob(id) ==
    /\ ret = NoRet
    /\ calls < MaxCalls
    /\ DeleteJob(id)
    /\ ret' = [op |-> "DeleteJob", Id |-> id,
               err |-> IF id \in DOMAIN store THEN "" ELSE "JobNotFound",
               j |-> NoJob, was |-> StatusOf(id), fires |-> 0, asGot |-> FALSE]
    /\ Counted
    /\ UNCHANGED <<now, usedIds, timerSet, timerWhen, timerC, isRunning>>
    /\ UNCHANGED loopVars
    /\ UNCHANGED <<lifeVars, fires, raceVars, clusterVars>>

\* Scheduler._runJob(j): the calls of the job function it makes (0 or 1)
runJob(j) ==
    IF j.FuncName \notin FuncMap THEN 0
    ELSE IF ~ParseDuration(j.Timeout).ok THEN 0
    ELSE 1

\* jobs a caller builds itself and never adds
FreshJobs ==
    {[NoJob EXCEPT !.Type = TYPE_INTERVAL, !.Interval = "1s", !.FuncName = fn,
                   !.Timeout = to] : fn \in {"dryRun", "missing"}, to \in {"1h", ""}}

\* what a caller passes to RunJob: a job it got from the store, or one of its own
RunJobInputs == GetAllJobs(store) \cup FreshJobs

\* RunJob that also flushes the job as a scheduled fire does
RunJobFlushing(j) ==
    /\ ret = NoRet
    /\ ret' = [op |-> "RunJob", Id |-> j.Id, err |-> "", j |-> j,
               was |-> StatusOf(j.Id), fires |-> runJob(j), asGot |-> FALSE]
    /\ IF j.Id \in DOMAIN store
       THEN store' = [store EXCEPT ![j.Id].LastRunTime = Trunc(now)]
       ELSE UNCHANGED store
    /\ UNCHANGED <<now, usedIds, calls, timerSet, timerWhen, timerC, isRunning>>
    /\ UNCHANGED loopVars
    /\ UNCHANGED <<lifeVars, fires, raceVars, clusterVars>>

\* Scheduler.RunJob(j)
RunJob(j) ==
    /\ ret = NoRet
    /\ ret' = [op |-> "RunJob", Id |-> j.Id, err |-> "", j |-> j,
               was |-> StatusOf(j.Id), fires |-> runJob(j), asGot |-> FALSE]
    /\ UNCHANGED <<now, store, usedIds, calls, timerSet, timerWhen, timerC, isRunning>>
    /\ UNCHANGED loopVars
    /\ UNCHANGED <<lifeVars, fires, raceVars, clusterVars>>

\* Scheduler.Start
Start ==
    /\ ret = NoRet
    /\ ~isRunning
    /\ timerSet' = TRUE
    /\ timerWhen' = now
    /\ timerC' = FALSE
    /\ isRunning' = TRUE
    /\ pc' = "select"
    /\ UNCHANGED ret
    /\ UNCHANGED <<now, store, usedIds, calls, tickNow, js, cur, tickFired>>
    /\ UNCHANGED <<lifeVars, fires, raceVars, clusterVars>>

\* --------------------------------------------------------------- run loop
\* the runtime fires the armed timer: a tick is sent to timer.C
TimerFire ==
    /\ ret = NoRet
    /\ timerWhen # NoTimer
    /\ now >= timerWhen
    /\ timerC' = TRUE
    /\ timerWhen' = NoTimer
    /\ UNCHANGED ret
    /\ UNCHANGED <<now, store, usedIds, calls, timerSet, isRunning>>
    /\ UNCHANGED loopVars
    /\ UNCHANGED <<lifeVars, fires, raceVars, clusterVars>>

\* run without sort.Sort: js is in whatever order the store gives
runTimerCUnsorted ==
    /\ ret = NoRet
    /\ pc = "select"
    /\ timerC
    /\ timerC' = FALSE
    /\ tickNow' = now
    /\ LET S == GetAllJobs(store)
       IN  \E q \in [1..Cardinality(S) -> S] :
              /\ \A i, k \in DOMAIN q : i # k => q[i] # q[k]
              /\ js' = q
    /\ tickFired' = <<>>
    /\ pc' = "loop"
    /\ UNCHANGED ret
    /\ UNCHANGED <<now, store, usedIds, calls, timerSet, timerWhen, isRunning, cur>>
    /\ UNCHANGED <<lifeVars, fires, raceVars, clusterVars>>

\* run: case <-s.timer.C, now := time.Now().UTC(), GetAllJobs, sort.Sort
runTimerC ==
    /\ ret = NoRet
    /\ pc = "select"
    /\ timerC
    /\ timerC' = FALSE
    /\ tickNow' = now
    /\ js' = SortJobs(GetAllJobs(store))
    /\ tickFired' = <<>>
    /\ pc' = "loop"
    /\ UNCHANGED ret
    /\ UNCHANGED <<now, store, usedIds, calls, timerSet, timerWhen, isRunning, cur>>
    /\ UNCHANGED <<lifeVars, fires, raceVars, clusterVars>>

\* run whose GetAllJobs error only continues, with no timer.Reset
runGetAllJobsErrorNoReset ==
    /\ ret = NoRet
    /\ pc = "select"
    /\ timerC
    /\ timerC' = FALSE
    /\ tickNow' = now
    /\ UNCHANGED ret
    /\ UNCHANGED <<now, store, usedIds, calls, timerSet, timerWhen, isRunning>>
    /\ UNCHANGED <<pc, js, cur, tickFired>>
    /\ UNCHANGED <<lifeVars, fires, raceVars, clusterVars>>

\* run: case <-s.timer.C, GetAllJobs returns an error: timer.Reset(time.Second), continue
runGetAllJobsError ==
    /\ ret = NoRet
    /\ pc = "select"
    /\ timerC
    /\ timerC' = FALSE
    /\ tickNow' = now
    /\ TimerReset(SecUnits)
    /\ UNCHANGED ret
    /\ UNCHANGED <<now, store, usedIds, calls, timerSet, isRunning>>
    /\ UNCHANGED <<pc, js, cur, tickFired>>
    /\ UNCHANGED <<lifeVars, fires, raceVars, clusterVars>>

\* run with a range that does not move on from the job it has dispatched
runDispatchRevisiting ==
    /\ ret = NoRet
    /\ pc = "loop"
    /\ js # <<>>
    /\ Head(js).NextRunTime < tickNow
    /\ LET j == Head(js)
           c == CalcNextRunTime(j, now)
       IN  IF ~c.ok
           THEN UNCHANGED <<pc, cur, tickFired>>
           ELSE /\ cur' = [j EXCEPT !.NextRunTime = c.t]
                /\ tickFired' = Append(tickFired,
                                       [Id |-> j.Id, NextRunTime |-> j.NextRunTime,
                                        err |-> ""])
                /\ pc' = "flush"
    /\ js' = js
    /\ UNCHANGED ret
    /\ UNCHANGED <<now, store, usedIds, calls, timerSet, timerWhen, timerC, isRunning,
                   tickNow>>
    /\ UNCHANGED <<lifeVars, fires, raceVars, clusterVars>>

\* run: the next job of js is due: CalcNextRunTime and _scheduleJob
runDispatchStep ==
    /\ ret = NoRet
    /\ pc = "loop"
    /\ js # <<>>
    /\ Head(js).NextRunTime < tickNow
    /\ LET j == Head(js)
           c == CalcNextRunTime(j, now)
       IN  IF ~c.ok
           THEN UNCHANGED <<pc, cur, tickFired>>
           ELSE /\ cur' = [j EXCEPT !.NextRunTime = c.t]
                /\ tickFired' = Append(tickFired,
                                       [Id |-> j.Id, NextRunTime |-> j.NextRunTime,
                                        err |-> ""])
                /\ pc' = "flush"
    /\ js' = Tail(js)
    /\ UNCHANGED ret
    /\ UNCHANGED <<now, store, usedIds, calls, timerSet, timerWhen, timerC, isRunning,
                   tickNow>>

\* run: the dispatch of the next due job, the job's goroutine left aside
runDispatch ==
    /\ runDispatchStep
    /\ UNCHANGED <<lifeVars, fires, raceVars, clusterVars>>

\* the error _flushJob(j, now) returns, "" when it returns nil
flushJobErr(j) ==
    IF j.Type = TYPE_DATETIME
    THEN IF j.NextRunTime < tickNow /\ j.Id \notin DOMAIN store
         THEN "JobNotFound" ELSE ""
    ELSE UpdateJobResult(j).err

\* run that returns when _flushJob fails
runFlushReturningOnError ==
    /\ ret = NoRet
    /\ pc = "flush"
    /\ LET j == [cur EXCEPT !.LastRunTime = Trunc(tickNow)]
       IN  /\ IF j.Type = TYPE_DATETIME
              THEN /\ IF j.NextRunTime < tickNow THEN DeleteJob(j.Id)
                                                ELSE UNCHANGED store
                   /\ UNCHANGED timerWhen
              ELSE UpdateJob(j)
           /\ tickFired' = [tickFired EXCEPT ![Len(tickFired)].err = flushJobErr(j)]
           /\ pc' = IF flushJobErr(j) # "" THEN "done" ELSE "loop"
    /\ cur' = NoJob
    /\ UNCHANGED ret
    /\ UNCHANGED <<now, usedIds, calls, timerSet, timerC, isRunning, tickNow, js>>
    /\ UNCHANGED <<lifeVars, fires, raceVars, clusterVars>>

\* run: _flushJob(j, now); its error is logged and the range goes on
runFlush ==
    /\ ret = NoRet
    /\ pc = "flush"
    /\ LET j == [cur EXCEPT !.LastRunTime = Trunc(tickNow)]
       IN  /\ IF j.Type = TYPE_DATETIME
              THEN /\ IF j.NextRunTime < tickNow THEN DeleteJob(j.Id)
                                                ELSE UNCHANGED store
                   /\ UNCHANGED timerWhen
              ELSE UpdateJob(j)
           /\ tickFired' = [tickFired EXCEPT ![Len(tickFired)].err = flushJobErr(j)]
    /\ pc' = "loop"
    /\ cur' = NoJob
    /\ UNCHANGED ret
    /\ UNCHANGED <<now, usedIds, calls, timerSet, timerC, isRunning, tickNow, js>>
    /\ UNCHANGED <<lifeVars, fires, raceVars, clusterVars>>

\* run: the range is over or breaks: timer.Reset(getNextWakeupInterval())
runReset ==
    /\ ret = NoRet
    /\ pc = "loop"
    /\ IF js = <<>> THEN TRUE ELSE Head(js).NextRunTime >= tickNow
    /\ TimerReset(getNextWakeupInterval(store, now))
    /\ pc' = "select"
    /\ js' = <<>>
    /\ tickFired' = <<>>
    /\ tickNow' = ZeroTime
    /\ UNCHANGED ret
    /\ UNCHANGED <<now, store, usedIds, calls, timerSet, timerC, isRunning, cur>>
    /\ UNCHANGED <<lifeVars, fires, raceVars, clusterVars>>

\* the caller takes the result of its call
Return ==
    /\ ret # NoRet
    /\ ret' = NoRet
    /\ UNCHANGED <<now, store, usedIds, calls, timerSet, timerWhen, timerC, isRunning>>
    /\ UNCHANGED loopVars
    /\ UNCHANGED <<lifeVars, fires, raceVars, clusterVars>>

\* the clock
AdvanceTime ==
    /\ ret = NoRet
    /\ now < MaxTime
    /\ now' = now + 1
    /\ UNCHANGED ret
    /\ UNCHANGED <<store, usedIds, calls, timerSet, timerWhen, timerC, isRunning>>
    /\ UNCHANGED loopVars
    /\ UNCHANGED <<lifeVars, fires, raceVars, clusterVars>>

\* ---------------------------------------------------------- specification
Init ==
    /\ now = 1
    /\ store = <<>>
    /\ usedIds = {}
    /\ calls = 0
    /\ timerSet = FALSE
    /\ timerWhen = NoTimer
    /\ timerC = FALSE
    /\ isRunning = FALSE
    /\ pc = "idle"
    /\ tickNow = ZeroTime
    /\ js = <<>>
    /\ cur = NoJob
    /\ tickFired = <<>>
    /\ ret = NoRet
    /\ gens = <<>>
    /\ runs = <<>>
    /\ fires = <<>>
    /\ clusterMode = FALSE
    /\ nodeMap = [n \in Endpoints |-> "absent"]
    /\ nodeTimer = [n \in Endpoints |-> "nil"]
    /\ nodePc = [n \in Endpoints |-> "idle"]
    /\ sent = {}
    /\ last = NoEvent
    /\ quitChan = 0
    /\ nextWakeup = NoTimer

Next ==
    \/ \E tm \in TimingInputs, tz \in TimezoneInputs, fn \in FuncNameInputs :
           AddJob(NewJob(tm, tz, fn, STATUS_PAUSED))
    \/ \E id \in Ids, e \in EditInputs : ClientUpdateJob(id, e)
    \/ \E id \in Ids : PauseJob(id)
    \/ \E id \in Ids : ResumeJob(id)
    \/ \E id \in Ids : ClientDeleteJob(id)
    \/ \E id \in Ids : GetJob(id)
    \/ \E j \in RunJobInputs : RunJob(j)
    \/ Return
    \/ Start
    \/ TimerFire
    \/ runTimerC
    \/ runGetAllJobsError
    \/ runDispatch
    \/ runFlush
    \/ runReset
    \/ AdvanceTime

Spec == Init /\ [][Next]_vars

\* ------------------------------------------------------------------ claims
\* the run loop waits in its select for a tick planned later than now
Asleep == pc = "select" /\ ~timerC /\ timerWhen # NoTimer /\ timerWhen > now

\* C2: after PauseJob(id) succeeds, the job it returns and the job in the store
\* have Status paused and NextRunTime NEXT_RUN_TIME_MAX.
C2_PauseJobPinsSentinel ==
    (ret.op = "PauseJob" /\ ret.err = "") =>
        /\ ret.j.Status = STATUS_PAUSED
        /\ ret.j.NextRunTime = NEXT_RUN_TIME_MAX
        /\ ret.Id \in DOMAIN store
        /\ store[ret.Id].Status = STATUS_PAUSED
        /\ store[ret.Id].NextRunTime = NEXT_RUN_TIME_MAX

\* a running job has just been paused
C2_Witness ==
    /\ ret.op = "PauseJob" /\ ret.err = "" /\ ret.was = STATUS_RUNNING
    /\ ret.j.NextRunTime = NEXT_RUN_TIME_MAX

\* C5 as claimed: a stored job is paused if and only if its NextRunTime is
\* NEXT_RUN_TIME_MAX.
C5_PausedIffSentinel ==
    \A id \in DOMAIN store :
        (store[id].Status = STATUS_PAUSED) <=> (store[id].NextRunTime = NEXT_RUN_TIME_MAX)

\* C5 as amended: a paused stored job has NextRunTime NEXT_RUN_TIME_MAX, and a
\* stored job with that NextRunTime is paused or is a datetime job whose StartAt
\* is the sentinel instant itself.
C5_PausedImpliesSentinel ==
    \A id \in DOMAIN store :
        /\ store[id].Status = STATUS_PAUSED => store[id].NextRunTime = NEXT_RUN_TIME_MAX
        /\ store[id].NextRunTime = NEXT_RUN_TIME_MAX =>
              \/ store[id].Status = STATUS_PAUSED
              \/ /\ store[id].Type = TYPE_DATETIME
                 /\ ParseStartAt(store[id].StartAt).t = NEXT_RUN_TIME_MAX

\* a paused job beside a running job that the run loop has flushed
C5_Witness ==
    \E a, b \in DOMAIN store :
        /\ store[a].Status = STATUS_PAUSED
        /\ store[b].Status = STATUS_RUNNING
        /\ store[b].LastRunTime # ZeroTime

\* C7: no job is dispatched twice within one tick, and the only flush that can
\* be outstanding is that of the job dispatched last: none is when the loop is
\* back in its select, where the next tick reads the store.
C7_OneDispatchPerTick ==
    /\ \A i, k \in 1..Len(tickFired) : i # k => tickFired[i].Id # tickFired[k].Id
    /\ pc = "flush" => tickFired # <<>> /\ cur.Id = tickFired[Len(tickFired)].Id
    /\ pc # "flush" => cur = NoJob
    /\ pc \in {"idle", "select"} => tickFired = <<>>

\* two jobs have been dispatched and flushed in one tick
C7_Witness == pc = "loop" /\ Len(tickFired) = 2

\* C8: within one tick the jobs are dispatched in ascending order of the
\* NextRunTime the tick read, equal NextRunTime in ascending order of Id.
C8_DispatchOrder ==
    \A i, k \in 1..Len(tickFired) : i < k => JobSliceLess(tickFired[i], tickFired[k])

\* two jobs with the same NextRunTime have been dispatched in one tick
C8_Witness ==
    /\ Len(tickFired) = 2
    /\ tickFired[1].NextRunTime = tickFired[2].NextRunTime

\* C3: once a job is stored as paused (PauseJob has returned), the run loop
\* does not dispatch it: no dispatch step takes a job whose stored Status is
\* paused at that moment.
C3_NoDispatchWhilePaused ==
    [][(pc = "loop" /\ pc' = "flush" /\ Head(js).Id \in DOMAIN store)
          => store[Head(js).Id].Status # STATUS_PAUSED]_vars

\* C4 as claimed: ResumeJob of a paused job of any Type gives a running job
\* whose NextRunTime is not NEXT_RUN_TIME_MAX and is after the time of the call.
C4_ResumeGivesLaterRun ==
    (ret.op = "ResumeJob" /\ ret.err = "" /\ ret.was = STATUS_PAUSED) =>
        /\ ret.j.Status = STATUS_RUNNING
        /\ ret.j.NextRunTime # NEXT_RUN_TIME_MAX
        /\ ret.j.NextRunTime > now

\* C4 as amended: ResumeJob of a paused job stores and returns a running job
\* with the NextRunTime CalcNextRunTime gives at the time of the call: for an
\* interval job the whole second of now + Interval (after now when Interval is
\* a second or more), for a cron job the next match after now, neither being
\* NEXT_RUN_TIME_MAX; for a datetime job StartAt itself, whatever now is.
C4_ResumeRecomputes ==
    (ret.op = "ResumeJob" /\ ret.err = "" /\ ret.was = STATUS_PAUSED) =>
        /\ ret.j.Status = STATUS_RUNNING
        /\ ret.Id \in DOMAIN store /\ store[ret.Id] = ret.j
        /\ ret.j.Type = TYPE_INTERVAL =>
              LET d == ParseDuration(ret.j.Interval).d
              IN  /\ ret.j.NextRunTime # NEXT_RUN_TIME_MAX
                  /\ ret.j.NextRunTime > now + d - SecUnits
                  /\ d >= SecUnits => ret.j.NextRunTime > now
        /\ ret.j.Type = TYPE_CRON =>
              /\ ret.j.NextRunTime # NEXT_RUN_TIME_MAX
              /\ ret.j.NextRunTime > now
        /\ ret.j.Type = TYPE_DATETIME =>
              ret.j.NextRunTime = Trunc(ParseStartAt(ret.j.StartAt).t)

\* a paused interval job has just been resumed
C4_Witness ==
    /\ ret.op = "ResumeJob" /\ ret.err = "" /\ ret.was = STATUS_PAUSED
    /\ ret.j.Type = TYPE_INTERVAL /\ ret.j.Interval = "1s"

\* a running job of Type ty is stored and its NextRunTime has passed
Overdue(ty) ==
    \E id \in DOMAIN store :
        /\ store[id].Type = ty
        /\ store[id].Status = STATUS_RUNNING
        /\ store[id].NextRunTime < now

\* a tick is in progress, waiting in timer.C, or planned within a second
TickAtHand ==
    \/ pc \in {"loop", "flush"}
    \/ timerC
    \/ timerWhen # NoTimer /\ timerWhen <= now + SecUnits

\* C1: with the scheduler started, a running interval job whose NextRunTime
\* has passed is dispatched by a later tick: a tick is in progress, waiting, or
\* planned no later than a second from now.
C1_OverdueIntervalJobGetsTick ==
    (isRunning /\ Overdue(TYPE_INTERVAL)) => TickAtHand

\* C6: a datetime job is fired by the run loop: once its NextRunTime has
\* passed, a tick is in progress, waiting, or planned no later than a second
\* from now.
C6_OverdueDatetimeJobGetsTick ==
    (isRunning /\ Overdue(TYPE_DATETIME)) => TickAtHand

\* C9: when a successful UpdateJob, PauseJob or ResumeJob leaves the store with
\* a minimum NextRunTime earlier than the wake-up the sleeping run loop has
\* planned, the call resets the timer to fire now.
C9_UpdateJobWakesLoop ==
    [][(/\ ret'.op \in {"UpdateJob", "PauseJob", "ResumeJob"} /\ ret'.err = ""
        /\ isRunning /\ Asleep
        /\ GetNextRunTime(store') < timerWhen)
          => timerWhen' = now]_vars

\* C10: when AddJob stores a job whose NextRunTime is earlier than the wake-up
\* the sleeping run loop has planned, the call resets the timer to fire now.
C10_AddJobWakesLoop ==
    [][(/\ ret'.op = "AddJob" /\ ret'.err = ""
        /\ isRunning /\ Asleep
        /\ ret'.j.NextRunTime < timerWhen)
          => timerWhen' = now]_vars

\* ------------------------------------------------- Start and Stop cycles
\* Start makes a new timer and a new quit channel each time it launches run,
\* so a run goroutine blocked in its select stays on the pair it found when
\* it entered the select. gens[g] is the g-th pair: the signals in the quit
\* channel, the timer's deadline and whether a tick waits in its C.
NewGen(t) == [quit |-> 0, when |-> t, C |-> FALSE]

\* a run goroutine: where it is and the pair it reads
NewRun(g) == [pc |-> "enter", g |-> g]

\* the result of a Start or Stop call, with what s.isRunning was
LifeRet(op) ==
    [NoRet EXCEPT !.op = op, !.was = IF isRunning THEN "running" ELSE "stopped"]

lifeFrame ==
    UNCHANGED <<now, store, usedIds, calls, timerSet, timerWhen, timerC>>
    /\ UNCHANGED loopVars
    /\ UNCHANGED <<fires, raceVars, clusterVars>>

\* Start without its isRunning test
LifeStartUnguarded ==
    /\ ret = NoRet
    /\ Len(gens) < MaxStarts
    /\ gens' = Append(gens, NewGen(now))
    /\ runs' = Append(runs, NewRun(Len(gens) + 1))
    /\ isRunning' = TRUE
    /\ ret' = LifeRet("Start")
    /\ lifeFrame

\* Scheduler.Start, under mutexS
LifeStart ==
    /\ ret = NoRet
    /\ IF isRunning
       THEN UNCHANGED <<gens, runs, isRunning>>
       ELSE /\ Len(gens) < MaxStarts
            /\ gens' = Append(gens, NewGen(now))
            /\ runs' = Append(runs, NewRun(Len(gens) + 1))
            /\ isRunning' = TRUE
    /\ ret' = LifeRet("Start")
    /\ lifeFrame

\* Stop without s.isRunning = false
LifeStopLeavingRunning ==
    /\ ret = NoRet
    /\ IF ~isRunning
       THEN UNCHANGED <<gens, runs, isRunning>>
       ELSE /\ gens[Len(gens)].quit < QuitCap
            /\ gens' = [gens EXCEPT ![Len(gens)].quit = @ + 1]
            /\ UNCHANGED <<runs, isRunning>>
    /\ ret' = LifeRet("Stop")
    /\ lifeFrame

\* Scheduler.Stop, under mutexS: the send blocks while the channel is full
LifeStop ==
    /\ ret = NoRet
    /\ IF ~isRunning
       THEN UNCHANGED <<gens, runs, isRunning>>
       ELSE /\ gens[Len(gens)].quit < QuitCap
            /\ gens' = [gens EXCEPT ![Len(gens)].quit = @ + 1]
            /\ isRunning' = FALSE
            /\ UNCHANGED runs
    /\ ret' = LifeRet("Stop")
    /\ lifeFrame

\* the pairs goroutine i can find in s.timer and s.quitChan: run reads the
\* fields without mutexS, so it sees the pair it was launched with or a later one
Seen(i) == runs[i].g .. Len(gens)

\* run: the select statement evaluates s.quitChan and s.timer.C
LifeEnter(i) ==
    /\ ret = NoRet
    /\ runs[i].pc = "enter"
    /\ \E g \in Seen(i) : runs' = [runs EXCEPT ![i] = [pc |-> "select", g |-> g]]
    /\ UNCHANGED <<gens, isRunning, ret>>
    /\ lifeFrame

\* run: case <-s.quitChan
LifeQuit(i) ==
    /\ ret = NoRet
    /\ runs[i].pc = "select"
    /\ gens[runs[i].g].quit > 0
    /\ gens' = [gens EXCEPT ![runs[i].g].quit = @ - 1]
    /\ runs' = [runs EXCEPT ![i].pc = "done"]
    /\ UNCHANGED <<isRunning, ret>>
    /\ lifeFrame

\* run: case <-s.timer.C, up to the range over the jobs of an empty store
LifeTimerC(i) ==
    /\ ret = NoRet
    /\ runs[i].pc = "select"
    /\ gens[runs[i].g].C
    /\ gens' = [gens EXCEPT ![runs[i].g].C = FALSE]
    /\ runs' = [runs EXCEPT ![i].pc = "tick"]
    /\ UNCHANGED <<isRunning, ret>>
    /\ lifeFrame

\* run: s.timer.Reset(getNextWakeupInterval()) at the end of the tick
LifeReset(i) ==
    /\ ret = NoRet
    /\ runs[i].pc = "tick"
    /\ \E g \in Seen(i) :
          /\ gens' = [gens EXCEPT ![g].when = now + getNextWakeupInterval(store, now)]
          /\ runs' = [runs EXCEPT ![i] = [pc |-> "enter", g |-> g]]
    /\ UNCHANGED <<isRunning, ret>>
    /\ lifeFrame

\* the runtime fires timer g: a tick is sent to its C
LifeTimerFire(g) ==
    /\ ret = NoRet
    /\ gens[g].when # NoTimer
    /\ now >= gens[g].when
    /\ gens' = [gens EXCEPT ![g].when = NoTimer, ![g].C = TRUE]
    /\ UNCHANGED <<runs, isRunning, ret>>
    /\ lifeFrame

LifeNext ==
    \/ LifeStart
    \/ LifeStop
    \/ \E i \in 1..MaxStarts : i \in DOMAIN runs /\ LifeEnter(i)
    \/ \E i \in 1..MaxStarts : i \in DOMAIN runs /\ LifeQuit(i)
    \/ \E i \in 1..MaxStarts : i \in DOMAIN runs /\ LifeTimerC(i)
    \/ \E i \in 1..MaxStarts : i \in DOMAIN runs /\ LifeReset(i)
    \/ \E g \in 1..MaxStarts : g \in DOMAIN gens /\ LifeTimerFire(g)
    \/ Return
    \/ AdvanceTime

\* Start, Stop and the run goroutines of a scheduler whose store stays empty
LifeSpec == Init /\ [][LifeNext]_vars

\* C11: Start on a running scheduler and Stop on a stopped scheduler change
\* nothing: isRunning, every timer and quit channel, and the run goroutines
\* are as before the call.
C11_RepeatedStartStopNoOp ==
    [][(/\ ret = NoRet
        /\ \/ ret'.op = "Start" /\ isRunning
           \/ ret'.op = "Stop" /\ ~isRunning)
          => UNCHANGED <<isRunning, gens, runs>>]_vars

\* Start has returned on a scheduler that was running, its run goroutine alive
C11_Witness ==
    /\ ret.op = "Start" /\ ret.was = "running"
    /\ \E i \in DOMAIN runs : runs[i].pc # "done"

\* C12: Stop never blocks: whenever the scheduler is running, the quit channel
\* Stop would send to has room, and no quit channel holds more than QuitCap.
C12_StopNeverBlocks ==
    /\ isRunning => gens # <<>> /\ gens[Len(gens)].quit < QuitCap
    /\ \A g \in DOMAIN gens : gens[g].quit <= QuitCap

\* Stop has returned while a run goroutine of a restarted scheduler is inside a tick
C12_Witness ==
    /\ ret.op = "Stop" /\ ret.was = "running"
    /\ Len(gens) >= 2
    /\ \E i \in DOMAIN runs : runs[i].pc = "tick"

\* C13 as claimed: RunJob(j) calls the job function once and returns no error.
C13_RunJobFiresOnce ==
    ret.op = "RunJob" => ret.fires = 1 /\ ret.err = ""

\* C13 as amended: RunJob(j) returns no error and leaves the store as it is,
\* whether or not j is stored; it calls the job function once when j.FuncName
\* is registered and j.Timeout parses, and not at all otherwise.
C13_RunJobLeavesStore ==
    [][(ret = NoRet /\ ret'.op = "RunJob") =>
          /\ store' = store
          /\ ret'.err = ""
          /\ ret'.fires = IF check(ret'.j) /\ ParseDuration(ret'.j.Timeout).ok
                          THEN 1 ELSE 0]_vars

\* RunJob has run a stored job that the run loop has flushed before
C13_Witness ==
    /\ ret.op = "RunJob" /\ ret.fires = 1
    /\ ret.Id \in DOMAIN store
    /\ store[ret.Id].LastRunTime # ZeroTime

\* C14: a successful AddJob returns and stores a job with a new Id, Status
\* running whatever the caller passed, a registered FuncName, Timezone UTC when
\* none was given, and the NextRunTime CalcNextRunTime gives; the store holds
\* that one job more and its other jobs are as before.
C14_AddJobDefaults ==
    [][(ret = NoRet /\ ret'.op = "AddJob" /\ ret'.err = "") =>
          LET j == ret'.j
          IN  /\ j.Id # NoJob.Id
              /\ j.Id \notin DOMAIN store
              /\ j.Id \notin usedIds
              /\ j.Status = STATUS_RUNNING
              /\ j.FuncName # "" /\ j.FuncName \in FuncMap
              /\ j.Timezone = "UTC"
              /\ CalcNextRunTime(j, now).ok
              /\ j.NextRunTime = CalcNextRunTime(j, now).t
              /\ DOMAIN store' = DOMAIN store \cup {j.Id}
              /\ store'[j.Id] = j
              /\ \A i \in DOMAIN store : store'[i] = store[i]]_vars

\* AddJob has returned a second job, beside one the run loop has flushed
C14_Witness ==
    /\ ret.op = "AddJob" /\ ret.err = ""
    /\ Cardinality(DOMAIN store) = 2
    /\ \E i \in DOMAIN store : store[i].LastRunTime # ZeroTime

\* C15: every job in the store has a FuncName that is not empty and is a
\* registered function.
C15_StoredFuncNameRegistered ==
    \A id \in DOMAIN store :
        store[id].FuncName # "" /\ store[id].FuncName \in FuncMap

\* an UpdateJob that names an unregistered function has been refused, the job
\* still stored
C15_Witness ==
    /\ ret.op = "UpdateJob" /\ ret.err = "FuncUnregistered"
    /\ ret.Id \in DOMAIN store

\* the timing fields tm with timezone tz make a valid job specification
ValidSpec(tm, tz) ==
    /\ tz \in {"", "UTC"}
    /\ \/ tm.Type = TYPE_DATETIME /\ tm.StartAt # NoStartAt
       \/ tm.Type = TYPE_INTERVAL /\ tm.Interval \in {"500ms", "1s", "1h"}
       \/ tm.Type = TYPE_CRON /\ tm.CronExpr = "*/2 * * * * *"

\* C16: an AddJob that fails stores nothing and returns the empty Job; it fails
\* with FuncUnregistered for an unregistered FuncName, with InvalidSpec for an
\* invalid timezone, interval, cron expression, StartAt or Type, and it fails
\* whenever one of the two is the case.
C16_FailedAddJobStoresNothing ==
    [][(ret = NoRet /\ ret'.op = "AddJob") =>
          /\ ret'.err # "" => store' = store /\ usedIds' = usedIds /\ ret'.j = NoJob
          /\ \A tm \in TimingInputs, tz \in TimezoneInputs, fn \in FuncNameInputs :
                LET r == init(NewJob(tm, tz, fn, STATUS_PAUSED), 1, now)
                    registered == fn \in FuncMap \cup {""}
                IN  /\ (registered /\ ValidSpec(tm, tz)) <=> r.err = ""
                    /\ (~registered /\ ValidSpec(tm, tz)) => r.err = "FuncUnregistered"
                    /\ (registered /\ ~ValidSpec(tm, tz)) => r.err = "InvalidSpec"
                    /\ r.err \in {"", "FuncUnregistered", "InvalidSpec"}]_vars

\* an AddJob has failed with InvalidSpec on a store that holds a job
C16_Witness ==
    /\ ret.op = "AddJob" /\ ret.err = "InvalidSpec"
    /\ store # <<>>

\* the operations that take the id of a job
ByIdOps == {"GetJob", "UpdateJob", "DeleteJob", "PauseJob", "ResumeJob"}

\* C17: GetJob, UpdateJob, DeleteJob, PauseJob and ResumeJob with an id that is
\* not in the store return JobNotFound and leave the store as it was; a
\* successful DeleteJob(id) takes id out of the store, and no id comes back, so
\* a GetJob(id) after it returns JobNotFound.
C17_UnknownIdIsJobNotFound ==
    [][/\ (ret = NoRet /\ ret'.op \in ByIdOps /\ ret'.Id \notin DOMAIN store) =>
              ret'.err = "JobNotFound" /\ ret'.j = NoJob /\ store' = store
       /\ (ret = NoRet /\ ret'.op = "DeleteJob" /\ ret'.err = "") =>
              ret'.Id \in DOMAIN store /\ ret'.Id \notin DOMAIN store'
       /\ \A id \in usedIds \ DOMAIN store : id \notin DOMAIN store']_vars

\* GetJob has returned JobNotFound for the id of a job that was deleted
C17_Witness ==
    /\ ret.op = "GetJob" /\ ret.err = "JobNotFound"
    /\ ret.Id \in usedIds \ DOMAIN store

\* C18: UpdateJob of the job as GetJob returned it succeeds and changes nothing
\* of the stored job but its NextRunTime, which is computed anew; the other
\* jobs of the store stay as they were.
C18_UpdateOfGetJobKeepsFields ==
    [][(ret = NoRet /\ ret'.op = "UpdateJob" /\ ret'.asGot /\ ret'.Id \in DOMAIN store) =>
          LET id == ret'.Id
          IN  /\ ret'.err = ""
              /\ DOMAIN store' = DOMAIN store
              /\ \A o \in DOMAIN store \ {id} : store'[o] = store[o]
              /\ store'[id] = [store[id] EXCEPT
                                 !.NextRunTime = CalcNextRunTime(store[id], now).t]
              /\ ret'.j = store'[id]]_vars

\* a job that has run, next to another job, has been passed to UpdateJob as
\* GetJob returned it
C18_Witness ==
    /\ ret.op = "UpdateJob" /\ ret.asGot /\ ret.err = ""
    /\ ret.Id \in DOMAIN store
    /\ store[ret.Id].LastRunTime # ZeroTime
    /\ DOMAIN store # {ret.Id}

\* C19: with an empty store GetNextRunTime is NEXT_RUN_TIME_MAX, and the run
\* loop that ends a tick over the empty store arms its timer one second ahead,
\* so that it wakes once per second.
C19_EmptyStoreTicksEachSecond ==
    [][(pc = "loop" /\ pc' = "select" /\ store = <<>>) =>
          /\ GetNextRunTime(store) = NEXT_RUN_TIME_MAX
          /\ timerWhen' = now + SecUnits]_vars

C25_NeverFiresEarly ==
    [][/\ (pc = "loop" /\ Len(tickFired') > Len(tickFired)
              /\ Head(js).Id \in DOMAIN store) =>
              /\ store[Head(js).Id].NextRunTime < tickNow
              /\ store[Head(js).Id].Status # STATUS_PAUSED
       /\ (pc = "loop" /\ js # <<>> /\ pc' = "select") =>
              Head(js).NextRunTime >= tickNow]_vars

\* C26: a tick whose GetAllJobs fails dispatches no job and touches no stored
\* job, arms the timer one second ahead and goes back to the select of a loop
\* that is still running.
C26_GetAllJobsErrorRetriesInASecond ==
    [][(pc = "select" /\ timerC /\ ~timerC' /\ pc' = "select") =>
          /\ store' = store
          /\ tickFired' = <<>>
          /\ timerWhen' = now + SecUnits
          /\ isRunning' = isRunning]_vars

\* a tick has failed in GetAllJobs while a job was due, and the loop waits for
\* the timer it has armed
C26_Witness ==
    /\ pc = "select" /\ tickNow # ZeroTime
    /\ \E id \in DOMAIN store : store[id].NextRunTime < tickNow
    /\ timerWhen = tickNow + SecUnits

\* C28 as stated: the sleep the run loop plans at the end of a tick is the least
\* stored NextRunTime minus now, raised to one second when it is less: the
\* timer is never re-armed for less than a second.
C28_WakeupAtLeastOneSecond ==
    [][(pc = "loop" /\ pc' = "select") =>
          LET delta == GetNextRunTime(store) - now
          IN  /\ timerWhen' - now >= SecUnits
              /\ timerWhen' - now = IF delta < SecUnits THEN SecUnits ELSE delta]_vars

\* C28, amended: the sleep the run loop plans at the end of a tick is the least
\* stored NextRunTime minus now, and one second only when that is negative: a
\* sleep from zero up to a second is planned as it is.
C28_WakeupOneSecondWhenOverdue ==
    [][(pc = "loop" /\ pc' = "select") =>
          LET delta == GetNextRunTime(store) - now
          IN  /\ timerWhen' - now = IF delta < 0 THEN SecUnits ELSE delta
              /\ timerWhen' - now >= 0]_vars

\* the loop sleeps until the next run time of a stored job, less than a second away
C28_Witness ==
    /\ pc = "select" /\ ~timerC /\ tickNow = ZeroTime
    /\ store # <<>>
    /\ timerWhen = GetNextRunTime(store)
    /\ timerWhen - now >= 0 /\ timerWhen - now < SecUnits

\* C29: a tick that finds the store empty stops the scheduler: at the end of
\* that tick isRunning is false and the run loop has left its loop.
C29_EmptyStoreStops ==
    [][(pc = "loop" /\ pc' # "loop" /\ pc' # "flush" /\ store = <<>>) =>
          ~isRunning' /\ pc' # "select"]_vars

\* C30: a successful AddJob on a scheduler that is not running starts it:
\* isRunning is true afterwards and a run loop waits for its timer.
C30_AddJobStarts ==
    [][(ret = NoRet /\ ret'.op = "AddJob" /\ ret'.err = "" /\ ~isRunning) =>
          isRunning' /\ pc' = "select" /\ timerSet']_vars

\* ------------------------------------------------- the goroutines of fires
\* s without its i-th element
RemoveAt(s, i) == SubSeq(s, 1, i - 1) \o SubSeq(s, i + 1, Len(s))

\* run: the dispatch of the next due job; _runJob spawns the goroutine that
\* calls the job's function
runDispatchSpawning ==
    /\ Len(fires) < MaxFires
    /\ runDispatchStep
    /\ fires' = IF pc' = "flush" /\ runJob(cur') = 1
                THEN Append(fires, [Id |-> cur'.Id, pc |-> "call"])
                ELSE fires
    /\ UNCHANGED <<lifeVars, raceVars, clusterVars>>

fireFrame ==
    /\ UNCHANGED <<now, store, usedIds, calls, timerSet, timerWhen, timerC, isRunning>>
    /\ UNCHANGED loopVars
    /\ UNCHANGED <<ret, lifeVars, raceVars, clusterVars>>

\* f.Call returns
JobReturn(i) ==
    /\ fires[i].pc = "call"
    /\ fires' = [fires EXCEPT ![i].pc = "returned"]
    /\ fireFrame

\* the job's function panics inside f.Call
JobPanic(i) ==
    /\ fires[i].pc = "call"
    /\ fires' = [fires EXCEPT ![i].pc = "panicking"]
    /\ fireFrame

\* a goroutine with no deferred recover: the panic ends the process
JobPanicUnrecovered(i) ==
    /\ fires[i].pc = "panicking"
    /\ fires' = <<>>
    /\ pc' = "crashed"
    /\ isRunning' = FALSE
    /\ UNCHANGED <<now, store, usedIds, calls, timerSet, timerWhen, timerC>>
    /\ UNCHANGED <<tickNow, js, cur, tickFired>>
    /\ UNCHANGED <<ret, lifeVars, raceVars, clusterVars>>

\* the deferred function of the goroutine: recover(), slog.Error, debug.Stack
JobRecover(i) ==
    /\ fires[i].pc = "panicking"
    /\ fires' = [fires EXCEPT ![i].pc = "recovered"]
    /\ fireFrame

\* close(ch): the goroutine ends and the one that waits on ch returns
JobExit(i) ==
    /\ fires[i].pc \in {"returned", "recovered"}
    /\ fires' = RemoveAt(fires, i)
    /\ fireFrame

FireNext ==
    \/ \E tm \in TimingInputs : AddJob(NewJob(tm, "", "", ""))
    \/ Return
    \/ Start
    \/ TimerFire
    \/ runTimerC
    \/ runDispatchSpawning
    \/ runFlush
    \/ runReset
    \/ AdvanceTime
    \/ \E i \in 1..MaxFires : i \in DOMAIN fires /\ JobReturn(i)
    \/ \E i \in 1..MaxFires : i \in DOMAIN fires /\ JobPanic(i)
    \/ \E i \in 1..MaxFires : i \in DOMAIN fires /\ JobRecover(i)
    \/ \E i \in 1..MaxFires : i \in DOMAIN fires /\ JobExit(i)

\* the run loop and the goroutines of the jobs it fires
FireSpec == Init /\ [][FireNext]_vars

\* the number of goroutines in f whose panic is not recovered yet
Panicking(f) == Cardinality({i \in DOMAIN f : f[i].pc = "panicking"})

\* C27: a panic of a job's function stays in the goroutine of that fire: the
\* steps of a panicking goroutine leave the run loop, the store, the timer and
\* isRunning as they are, so the loop goes on to flush the job and to dispatch
\* the other due jobs; the panic is recovered.
C27_PanicIsIsolated ==
    [][/\ \A i \in DOMAIN fires :
             (fires[i].pc \in {"call", "panicking"} /\ Len(fires') = Len(fires)
                 /\ fires'[i] # fires[i]) =>
                 /\ fires[i].pc = "panicking" => fires'[i].pc = "recovered"
                 /\ UNCHANGED <<pc, tickNow, js, cur, tickFired>>
                 /\ UNCHANGED <<store, isRunning, timerSet, timerWhen, timerC>>
       /\ Len(fires') < Len(fires) =>
             Panicking(fires') = Panicking(fires) /\ pc' = pc /\ isRunning' = isRunning
      ]_vars

\* the first job of a tick has panicked and the panic is recovered; the loop
\* has flushed that job and dispatched the second due job of the tick
C27_Witness ==
    /\ Len(tickFired) = 2
    /\ \E i \in DOMAIN fires :
          /\ fires[i].pc = "recovered"
          /\ fires[i].Id = tickFired[1].Id
          /\ fires[i].Id \in DOMAIN store
          /\ store[fires[i].Id].LastRunTime # ZeroTime
    /\ isRunning

\* ------------------------------------------------------------ the cluster
\* the Queues a job can carry
JobQueues == {{}, {"default"}, {"node"}, {"batch"}}

clusterFrame ==
    /\ UNCHANGED <<now, store, usedIds, calls, timerSet, timerWhen, timerC, isRunning>>
    /\ UNCHANGED loopVars
    /\ UNCHANGED <<ret, lifeVars, fires, raceVars>>

\* Scheduler.IsClusterMode
IsClusterMode == clusterMode

\* ClusterNode.IsMainNode: the node that has no main endpoint to register with
IsMainNode(n) == n = "main"

\* the peers choiceNode can pick for Queues q: healthy, and in q unless q is empty
Eligible(q) ==
    {m \in Endpoints : nodeMap[m] = "healthy" /\ (q = {} \/ Queue[m] \in q)}

\* ClusterNode.choiceNode(queues): the [err, node] pairs it can return
choiceNode(q) ==
    IF Eligible(q) = {} THEN {[err |-> "NoEligibleNode", node |-> ""]}
    ELSE {[err |-> "", node |-> m] : m \in Eligible(q)}

\* Scheduler.SetClusterNode on every node, before anything runs
SetClusterNode ==
    /\ ~clusterMode
    /\ last = NoEvent
    /\ \A n \in Endpoints : nodePc[n] = "idle"
    /\ clusterMode' = TRUE
    /\ UNCHANGED <<nodeMap, nodeTimer, nodePc, sent, last>>
    /\ clusterFrame

\* CRPCService.Register: the main node enters n into the peer table
RPCRegister(n) ==
    /\ clusterMode
    /\ nodeMap[n] = "absent"
    /\ nodeMap' = [nodeMap EXCEPT ![n] = "healthy"]
    /\ UNCHANGED <<clusterMode, nodeTimer, nodePc, sent, last>>
    /\ clusterFrame

\* CRPCService.Ping: a heartbeat of n reaches the main node
RPCPing(n) ==
    /\ clusterMode
    /\ nodeMap[n] = "unhealthy"
    /\ nodeMap' = [nodeMap EXCEPT ![n] = "healthy"]
    /\ UNCHANGED <<clusterMode, nodeTimer, nodePc, sent, last>>
    /\ clusterFrame

\* the sweep of the peer table: no heartbeat of n for too long
checkNode(n) ==
    /\ clusterMode
    /\ nodeMap[n] = "healthy"
    /\ nodeMap' = [nodeMap EXCEPT ![n] = "unhealthy"]
    /\ UNCHANGED <<clusterMode, nodeTimer, nodePc, sent, last>>
    /\ clusterFrame

\* _scheduleJob with no test of the node's own Queue before _runJob
scheduleJobIgnoringQueue(n, q, by) ==
    IF ~IsClusterMode
    THEN /\ last' = [what |-> "ran", node |-> n, Queues |-> q, by |-> by,
                     err |-> "", to |-> ""]
         /\ UNCHANGED sent
    ELSE \E c \in choiceNode(q) :
            IF c.err # "" \/ c.node = n
            THEN /\ last' = [what |-> "ran", node |-> n, Queues |-> q, by |-> by,
                             err |-> "", to |-> ""]
                 /\ UNCHANGED sent
            ELSE /\ Cardinality(sent) < MaxSent
                 /\ sent' = sent \cup {[to |-> c.node, Queues |-> q]}
                 /\ last' = [what |-> "sent", node |-> n, Queues |-> q, by |-> by,
                             err |-> "", to |-> c.node]

\* _scheduleJob returning the error whenever choiceNode fails, with no local run
scheduleJobFailingOnError(n, q, by) ==
    IF ~IsClusterMode
    THEN /\ last' = [what |-> "ran", node |-> n, Queues |-> q, by |-> by,
                     err |-> "", to |-> ""]
         /\ UNCHANGED sent
    ELSE \E c \in choiceNode(q) :
            IF c.err # ""
            THEN /\ last' = [what |-> "error", node |-> n, Queues |-> q, by |-> by,
                             err |-> "NoEligibleNode", to |-> ""]
                 /\ UNCHANGED sent
            ELSE IF c.node = n
            THEN /\ last' = [what |-> "ran", node |-> n, Queues |-> q, by |-> by,
                             err |-> "", to |-> ""]
                 /\ UNCHANGED sent
            ELSE /\ Cardinality(sent) < MaxSent
                 /\ sent' = sent \cup {[to |-> c.node, Queues |-> q]}
                 /\ last' = [what |-> "sent", node |-> n, Queues |-> q, by |-> by,
                             err |-> "", to |-> c.node]

\* Scheduler._scheduleJob(j) on node n, for a job with Queues q
scheduleJob(n, q, by) ==
    IF ~IsClusterMode
    THEN /\ last' = [what |-> "ran", node |-> n, Queues |-> q, by |-> by,
                     err |-> "", to |-> ""]
         /\ UNCHANGED sent
    ELSE \E c \in choiceNode(q) :
            IF c.err # "" \/ c.node = n
            THEN /\ IF q = {} \/ Queue[n] \in q
                    THEN last' = [what |-> "ran", node |-> n, Queues |-> q, by |-> by,
                                  err |-> "", to |-> ""]
                    ELSE last' = [what |-> "error", node |-> n, Queues |-> q, by |-> by,
                                  err |-> "NoEligibleNode", to |-> ""]
                 /\ UNCHANGED sent
            ELSE /\ Cardinality(sent) < MaxSent
                 /\ sent' = sent \cup {[to |-> c.node, Queues |-> q]}
                 /\ last' = [what |-> "sent", node |-> n, Queues |-> q, by |-> by,
                             err |-> "", to |-> c.node]

\* Scheduler.ScheduleJob(j) called on node n
ScheduleJob(n, q) ==
    /\ scheduleJob(n, q, "ScheduleJob")
    /\ UNCHANGED <<clusterMode, nodeMap, nodeTimer, nodePc>>
    /\ clusterFrame

\* CRPCService.RunJob arrives at its node: _runJob there
RPCRunJob(m) ==
    /\ m \in sent
    /\ sent' = sent \ {m}
    /\ last' = [what |-> "ran", node |-> m.to, Queues |-> m.Queues, by |-> "rpc",
                err |-> "", to |-> ""]
    /\ UNCHANGED <<clusterMode, nodeMap, nodeTimer, nodePc>>
    /\ clusterFrame

\* _runJobRemote: the dial or the call fails, or the 3 seconds pass: logged
RPCRunJobFails(m) ==
    /\ m \in sent
    /\ sent' = sent \ {m}
    /\ last' = [what |-> "lost", node |-> m.to, Queues |-> m.Queues, by |-> "rpc",
                err |-> "RPCError", to |-> ""]
    /\ UNCHANGED <<clusterMode, nodeMap, nodeTimer, nodePc>>
    /\ clusterFrame

\* Scheduler.Start on node n
NodeStart(n) ==
    /\ nodePc[n] = "idle"
    /\ nodePc' = [nodePc EXCEPT ![n] = "select"]
    /\ nodeTimer' = [nodeTimer EXCEPT ![n] = "0"]
    /\ UNCHANGED <<clusterMode, nodeMap, sent, last>>
    /\ clusterFrame

\* the runtime fires the timer of node n
NodeTimerFire(n) ==
    /\ nodeTimer[n] \in {"0", "1s", "next"}
    /\ nodeTimer' = [nodeTimer EXCEPT ![n] = "C"]
    /\ UNCHANGED <<clusterMode, nodeMap, nodePc, sent, last>>
    /\ clusterFrame

\* run with no test of the node's role: every node runs the tick
NodeTimerCAnyNode(n) ==
    /\ nodePc[n] = "select"
    /\ nodeTimer[n] = "C"
    /\ nodeTimer' = [nodeTimer EXCEPT ![n] = "drained"]
    /\ nodePc' = [nodePc EXCEPT ![n] = "tick"]
    /\ UNCHANGED <<clusterMode, nodeMap, sent, last>>
    /\ clusterFrame

\* run on node n: case <-s.timer.C; a node that is not the main node only
\* resets its timer to a second; the main node reads the store
NodeTimerC(n) ==
    /\ nodePc[n] = "select"
    /\ nodeTimer[n] = "C"
    /\ IF IsClusterMode /\ ~IsMainNode(n)
       THEN /\ nodeTimer' = [nodeTimer EXCEPT ![n] = "1s"]
            /\ UNCHANGED nodePc
       ELSE /\ nodeTimer' = [nodeTimer EXCEPT ![n] = "drained"]
            /\ nodePc' = [nodePc EXCEPT ![n] = "tick"]
    /\ UNCHANGED <<clusterMode, nodeMap, sent, last>>
    /\ clusterFrame

\* run on node n: a due job with Queues q: _scheduleJob, its error logged
NodeDispatch(n, q) ==
    /\ nodePc[n] = "tick"
    /\ scheduleJob(n, q, "run")
    /\ UNCHANGED <<clusterMode, nodeMap, nodeTimer, nodePc>>
    /\ clusterFrame

\* run on node n: the range is over: timer.Reset(getNextWakeupInterval())
NodeReset(n) ==
    /\ nodePc[n] = "tick"
    /\ nodePc' = [nodePc EXCEPT ![n] = "select"]
    /\ nodeTimer' = [nodeTimer EXCEPT ![n] = "next"]
    /\ UNCHANGED <<clusterMode, nodeMap, sent, last>>
    /\ clusterFrame

\* what a proxy does with a request to node n: endpointOk when the main node's
\* endpoint is a string, dialOk when the main node answers
proxied(n, by, endpointOk, dialOk) ==
    IF ~IsClusterMode \/ IsMainNode(n)
    THEN [what |-> "handled", node |-> n, Queues |-> {}, by |-> by, err |-> "", to |-> ""]
    ELSE IF ~endpointOk
    THEN [what |-> "refused", node |-> n, Queues |-> {}, by |-> by,
          err |-> "invalid endpoint", to |-> ""]
    ELSE IF ~dialOk
    THEN [what |-> "refused", node |-> n, Queues |-> {}, by |-> by,
          err |-> "RPCError", to |-> "main"]
    ELSE [what |-> "forwarded", node |-> n, Queues |-> {}, by |-> by, err |-> "",
          to |-> "main"]

\* a proxy with no test of the node's role: every node serves the request itself
GinProxyAnyNode(n, endpointOk, dialOk) ==
    /\ last' = [what |-> "handled", node |-> n, Queues |-> {}, by |-> "http",
                err |-> "", to |-> ""]
    /\ UNCHANGED <<clusterMode, nodeMap, nodeTimer, nodePc, sent>>
    /\ clusterFrame

\* ClusterProxy.GinProxy: an HTTP request reaches node n
GinProxy(n, endpointOk, dialOk) ==
    /\ last' = proxied(n, "http", endpointOk, dialOk)
    /\ UNCHANGED <<clusterMode, nodeMap, nodeTimer, nodePc, sent>>
    /\ clusterFrame

\* ClusterProxy.GRPCProxyInterceptor: a gRPC request reaches node n
GRPCProxyInterceptor(n, endpointOk, dialOk) ==
    /\ last' = proxied(n, "grpc", endpointOk, dialOk)
    /\ UNCHANGED <<clusterMode, nodeMap, nodeTimer, nodePc, sent>>
    /\ clusterFrame

ClusterNext ==
    \/ SetClusterNode
    \/ \E n \in Endpoints : RPCRegister(n)
    \/ \E n \in Endpoints : RPCPing(n)
    \/ \E n \in Endpoints : checkNode(n)
    \/ \E n \in Endpoints, q \in JobQueues : ScheduleJob(n, q)
    \/ \E m \in sent : RPCRunJob(m)
    \/ \E m \in sent : RPCRunJobFails(m)
    \/ \E n \in Endpoints : NodeStart(n)
    \/ \E n \in Endpoints : NodeTimerFire(n)
    \/ \E n \in Endpoints : NodeTimerC(n)
    \/ \E n \in Endpoints, q \in JobQueues : NodeDispatch(n, q)
    \/ \E n \in Endpoints : NodeReset(n)
    \/ \E n \in Endpoints, e, d \in BOOLEAN : GinProxy(n, e, d)
    \/ \E n \in Endpoints, e, d \in BOOLEAN : GRPCProxyInterceptor(n, e, d)

\* the schedulers of a main node and a worker node, standalone or in a cluster
ClusterSpec == Init /\ [][ClusterNext]_vars

\* a step in which node n, in cluster mode, has dealt with a job through the
\* run loop or ScheduleJob
Dealt ==
    /\ clusterMode
    /\ last' # last
    /\ last'.by \in {"run", "ScheduleJob"}

\* C21: in cluster mode the run loop's dispatch and ScheduleJob never run a job
\* with non-empty Queues on a node whose Queue is not among them; a fire they
\* send goes to a healthy node whose Queue is among them; and with the worker
\* healthy and the job's Queues being the worker's Queue, the main node sends
\* the fire to the worker and does not run it
C21_NoLocalRunOffQueue ==
    [][Dealt =>
        /\ (last'.what = "ran" /\ last'.Queues # {}) => Queue[last'.node] \in last'.Queues
        /\ last'.what = "sent" =>
              /\ last'.to # last'.node
              /\ nodeMap[last'.to] = "healthy"
              /\ last'.Queues # {} => Queue[last'.to] \in last'.Queues
        /\ (last'.node = "main" /\ last'.Queues = {Queue["worker"]}
              /\ nodeMap["worker"] = "healthy")
           => (last'.what = "sent" /\ last'.to = "worker")]_vars

C21_Witness ==
    /\ clusterMode
    /\ last.what = "sent"
    /\ last.node = "main"
    /\ last.by = "run"
    /\ last.to = "worker"
    /\ last.Queues = {Queue["worker"]}

\* a step in which a node in cluster mode has dealt with a job for which no
\* healthy peer matches the job's Queues
DealtNoPeer ==
    /\ Dealt
    /\ Eligible(last'.Queues) = {}

\* C22 as stated: a cluster dispatch of a job for which no healthy peer matches
\* the Queues fails with NoEligibleNode and the job runs on no node
C22_NoPeerFails ==
    [][DealtNoPeer =>
        /\ last'.what = "error"
        /\ last'.err = "NoEligibleNode"
        /\ sent' = sent]_vars

\* C22: a cluster dispatch of a job for which no healthy peer matches the Queues
\* sends the job to no node; it fails with NoEligibleNode and runs the job
\* nowhere when the Queues are non-empty and do not hold the node's own Queue,
\* and runs the job on the node itself, with no error, when the Queues are
\* empty or hold the node's own Queue
C22_NoPeerFailsOrRunsOnSelf ==
    [][DealtNoPeer =>
        /\ sent' = sent
        /\ IF last'.Queues = {} \/ Queue[last'.node] \in last'.Queues
           THEN last'.what = "ran" /\ last'.err = ""
           ELSE last'.what = "error" /\ last'.err = "NoEligibleNode"]_vars

C22_Witness ==
    /\ clusterMode
    /\ last.what = "error"
    /\ last.err = "NoEligibleNode"
    /\ last.by = "ScheduleJob"
    /\ Eligible(last.Queues) = {}

\* C23: in cluster mode a node that is not the main node answers every tick by
\* re-arming its timer to one second and staying in its select: its run loop
\* never enters the body of the tick, so it reads no store and dispatches and
\* flushes no job
C23_OnlyMainNodeTicks ==
    [][clusterMode =>
        \A n \in Endpoints : ~IsMainNode(n) =>
            /\ nodePc'[n] # "tick"
            /\ (nodeTimer[n] = "C" /\ nodeTimer'[n] # "C") =>
                  (nodeTimer'[n] = "1s" /\ nodePc'[n] = "select")
            /\ (last' # last /\ last'.by = "run") => last'.node # n]_vars

C23_Witness ==
    /\ clusterMode
    /\ nodePc["worker"] = "select"
    /\ nodeTimer["worker"] = "1s"
    /\ nodePc["main"] = "tick"

\* a step in which a node has answered an HTTP or gRPC request
Requested ==
    /\ last' # last
    /\ last'.by \in {"http", "grpc"}

\* C24: in cluster mode a request that reaches a node that is not the main node
\* is never served by that node's own handler: it is forwarded to the main
\* node or answered with an error; the main node, and every node in standalone
\* mode, serves the request itself and forwards nothing
C24_OnlyMainNodeServes ==
    [][Requested =>
        IF clusterMode /\ ~IsMainNode(last'.node)
        THEN /\ last'.what \in {"forwarded", "refused"}
             /\ last'.what = "forwarded" => (last'.to = "main" /\ last'.err = "")
             /\ last'.what = "refused" => last'.err # ""
        ELSE /\ last'.what = "handled"
             /\ last'.to = ""]_vars

C24_Witness ==
    /\ clusterMode
    /\ last.by = "grpc"
    /\ last.node = "worker"
    /\ last.what = "forwarded"
    /\ last.to = "main"

\* ------------------------------------------------- races of the run loop
\* the run goroutines that are inside a tick
Ticking == {i \in DOMAIN runs : runs[i].pc = "tick"}

\* C31: at most one run goroutine of the scheduler is active at any moment: no
\* two run goroutines are inside a tick at once, whatever the order of the
\* Start and Stop calls
C31_OneActiveRunLoop == Cardinality(Ticking) <= 1

\* Scheduler.Stop, under mutexS
Stop ==
    /\ ret = NoRet
    /\ IF ~isRunning
       THEN UNCHANGED <<isRunning, quitChan>>
       ELSE /\ quitChan < QuitCap
            /\ quitChan' = quitChan + 1
            /\ isRunning' = FALSE
    /\ ret' = LifeRet("Stop")
    /\ UNCHANGED <<now, store, usedIds, calls, timerSet, timerWhen, timerC>>
    /\ UNCHANGED loopVars
    /\ UNCHANGED <<lifeVars, fires, nextWakeup, clusterVars>>

\* run: case <-s.quitChan: the goroutine returns
runQuit ==
    /\ ret = NoRet
    /\ pc = "select"
    /\ quitChan > 0
    /\ quitChan' = quitChan - 1
    /\ pc' = "idle"
    /\ UNCHANGED ret
    /\ UNCHANGED <<now, store, usedIds, calls, timerSet, timerWhen, timerC, isRunning>>
    /\ UNCHANGED <<tickNow, js, cur, tickFired>>
    /\ UNCHANGED <<lifeVars, fires, nextWakeup, clusterVars>>

StopNext ==
    \/ \E tm \in TimingInputs : AddJob(NewJob(tm, "", "", ""))
    \/ Return
    \/ (pc = "idle" /\ Start)
    \/ Stop
    \/ runQuit
    \/ TimerFire
    \/ runTimerC
    \/ runDispatch
    \/ runFlush
    \/ runReset
    \/ AdvanceTime

\* one run loop from its Start to the Stop that ends it, and the next Start
\* once the loop has returned
StopSpec == Init /\ [][StopNext]_vars

\* C32: once Stop has returned, and until the next Start, the run loop
\* dispatches no job
C32_NoDispatchAfterStop ==
    [][(~isRunning /\ ret.op # "Stop") => Len(tickFired') <= Len(tickFired)]_vars

\* run: the range is over or breaks: nextWakeupInterval := s.getNextWakeupInterval()
runWakeupInterval ==
    /\ ret = NoRet
    /\ pc = "loop"
    /\ IF js = <<>> THEN TRUE ELSE Head(js).NextRunTime >= tickNow
    /\ nextWakeup' = getNextWakeupInterval(store, now)
    /\ pc' = "reset"
    /\ UNCHANGED ret
    /\ UNCHANGED <<now, store, usedIds, calls, timerSet, timerWhen, timerC, isRunning>>
    /\ UNCHANGED <<tickNow, js, cur, tickFired>>
    /\ UNCHANGED <<lifeVars, fires, quitChan, clusterVars>>

\* run: s.timer.Reset(nextWakeupInterval), whatever a client has done to the
\* store and the timer since the interval was computed
runTimerReset ==
    /\ pc = "reset"
    /\ TimerReset(nextWakeup)
    /\ nextWakeup' = NoTimer
    /\ pc' = "select"
    /\ js' = <<>>
    /\ tickFired' = <<>>
    /\ tickNow' = ZeroTime
    /\ UNCHANGED ret
    /\ UNCHANGED <<now, store, usedIds, calls, timerSet, timerC, isRunning, cur>>
    /\ UNCHANGED <<lifeVars, fires, quitChan, clusterVars>>

WakeNext ==
    \/ \E tm \in TimingInputs : AddJob(NewJob(tm, "", "", ""))
    \/ \E id \in Ids, e \in EditInputs : ClientUpdateJob(id, e)
    \/ Return
    \/ Start
    \/ TimerFire
    \/ runTimerC
    \/ runDispatch
    \/ runFlush
    \/ runWakeupInterval
    \/ runTimerReset
    \/ AdvanceTime

\* the run loop with the two steps of the end of its tick, and a client's calls
WakeSpec == Init /\ [][WakeNext]_vars

\* C33: when UpdateJob has returned, after the run loop computed the interval
\* of its next sleep, having stored a NextRunTime earlier than the wake-up that
\* interval gives, the loop's own timer reset leaves a tick waiting or the
\* timer armed no later than that NextRunTime (or than now, if it has passed)
C33_WakeupNotLost ==
    [][(/\ pc = "reset" /\ pc' = "select"
        /\ ret.op = "UpdateJob" /\ ret.err = ""
        /\ ret.j.NextRunTime < now + nextWakeup)
          => \/ timerC'
             \/ timerWhen' <= (IF ret.j.NextRunTime > now THEN ret.j.NextRunTime ELSE now)]_vars

\* job j with the two fields a flush is meant to write blanked
BesidesRunTimes(j) == [j EXCEPT !.LastRunTime = ZeroTime, !.NextRunTime = ZeroTime]

\* C34: the flush of a fired job changes nothing in the store but the job's
\* LastRunTime and NextRunTime: every other field of the stored job, as a
\* client call may have set it since the tick read the store, is as it was
C34_FlushKeepsClientChange ==
    [][(pc = "flush" /\ pc' = "loop" /\ cur.Id \in DOMAIN store /\ cur.Id \in DOMAIN store')
          => BesidesRunTimes(store'[cur.Id]) = BesidesRunTimes(store[cur.Id])]_vars

\* Scheduler.DeleteAllJobs called by a client
DeleteAllJobs ==
    /\ ret = NoRet
    /\ calls < MaxCalls
    /\ store' = <<>>
    /\ ret' = [NoRet EXCEPT !.op = "DeleteAllJobs"]
    /\ Counted
    /\ UNCHANGED <<now, usedIds, timerSet, timerWhen, timerC, isRunning>>
    /\ UNCHANGED loopVars
    /\ UNCHANGED <<lifeVars, fires, raceVars, clusterVars>>

DeleteNext ==
    \/ \E tm \in TimingInputs : AddJob(NewJob(tm, "", "", ""))
    \/ \E id \in Ids : ClientDeleteJob(id)
    \/ DeleteAllJobs
    \/ Return
    \/ Start
    \/ TimerFire
    \/ runTimerC
    \/ runDispatch
    \/ runFlush
    \/ runReset
    \/ AdvanceTime

\* the run loop next to a client that adds and deletes jobs
DeleteSpec == Init /\ [][DeleteNext]_vars

\* C35: the run loop never puts a deleted job back: an Id that has left the
\* store is never in it again, and the flush of a job that was deleted after
\* the tick read the store fails with JobNotFound and leaves the store as it is
C35_DeletedJobStaysDeleted ==
    [][/\ \A id \in Ids : (id \in usedIds /\ id \notin DOMAIN store) => id \notin DOMAIN store'
       /\ (pc = "flush" /\ pc' = "loop" /\ cur.Id \notin DOMAIN store) =>
             /\ store' = store
             /\ tickFired'[Len(tickFired')].err = "JobNotFound"]_vars

\* a tick has flushed a job that DeleteJob or DeleteAllJobs removed after the
\* tick read the store
C35_Witness ==
    /\ pc = "loop"
    /\ tickFired # <<>>
    /\ tickFired[Len(tickFired)].err = "JobNotFound"
    /\ tickFired[Len(tickFired)].Id \notin DOMAIN store
    /\ ret = NoRet

\* run on the main node: the dispatch of the next due job, whose Queues are q,
\* through _scheduleJob
runDispatchQueues(q) ==
    /\ runDispatchStep
    /\ IF pc' = "flush"
       THEN scheduleJob("main", q, "run")
       ELSE UNCHANGED <<sent, last>>
    /\ UNCHANGED <<lifeVars, fires, raceVars>>
    /\ UNCHANGED <<clusterMode, nodeMap, nodeTimer, nodePc>>

DispatchNext ==
    \/ \E tm \in TimingInputs : AddJob(NewJob(tm, "", "", ""))
    \/ Return
    \/ SetClusterNode
    \/ \E n \in Endpoints : RPCRegister(n)
    \/ \E n \in Endpoints : checkNode(n)
    \/ \E m \in sent : RPCRunJob(m)
    \/ Start
    \/ TimerFire
    \/ runTimerC
    \/ \E q \in JobQueues : runDispatchQueues(q)
    \/ runFlush
    \/ runReset
    \/ AdvanceTime

\* the main node's run loop over its store, standalone or in a cluster
DispatchSpec == Init /\ [][DispatchNext]_vars

\* C36: the run loop consumes a fire only when it dispatched it: when
\* _scheduleJob returned an error for the job, the flush that follows leaves
\* the store as it is
C36_NoFlushAfterFailedDispatch ==
    [][(/\ pc = "flush" /\ pc' = "loop"
        /\ last.by = "run" /\ last.what = "error")
          => store' = store]_vars

====
